---------------------------- MODULE Spec2Model ----------------------------
(***************************************************************************)
(* Model of ssl-checker-go (src/main.go): the command-line client of the   *)
(* SSL Labs API.  One run of main: flag handling, the service-info call,   *)
(* the capacity check, the start call, the polling loop of                 *)
(* WaitForAssessment with its progress printing, and displayResults.       *)
(* The remote service is the environment: every HTTP call draws its        *)
(* response from a bounded set.  Everything the run does that can be       *)
(* observed (requests, printed lines, delays, rendering) is appended to    *)
(* `trace` in program order.                                               *)
(***************************************************************************)
EXTENDS Integers, Sequences, FiniteSets, TLC

VARIABLES
    pc,         \* position of main / WaitForAssessment
    help,       \* flag -help
    domain,     \* flag -domain
    publish,    \* flag -publish
    info,       \* main's info (result of CheckApiStatus), NoInfo while nil
    host,       \* main's host, NoHost while nil
    polled,     \* WaitForAssessment's loop-local host, NoHost while nil
    i,          \* WaitForAssessment's i (0-based index into host.Endpoints)
    endpoint,   \* WaitForAssessment's endpoint (number of the next header)
    flag,       \* WaitForAssessment's flag
    rendered,   \* the argument displayResults was called with, NoHost if not called
    exitCode,   \* process exit status, -1 while running
    cached,     \* history: the Host StartAssessment returned, if it was READY or ERROR
    trace       \* history: requests, prints, delays in program order

vars == <<pc, help, domain, publish, info, host, polled, i, endpoint, flag,
          rendered, exitCode, cached, trace>>

---------------------------------------------------------------------------
(* Bounds of the model *)

\* longest endpoints list a response carries
MaxEndpoints == 2
\* longest endpoints list a start-assessment response carries
MaxStartEndpoints == 1
\* most check-assessment requests of one run
MaxPolls == 3
\* largest maxAssessments / currentAssessments a service-info response carries
MaxCap == 1

---------------------------------------------------------------------------
(* Data *)

\* http.StatusOK
StatusOK == 200

\* seconds WaitForAssessment sleeps between two polls
PollDelay == 10

\* Status codes a response may carry: success, and one that is not
HTTPCodes == {StatusOK, 429}

\* Endpoint.Progress values
ProgressValues == {50, 100}

\* Host.Status values a "status" member carries: the two terminal ones and
\* two non-terminal ones
StatusValues == {"READY", "ERROR", "IN_PROGRESS", "DNS"}

\* the statuses that end polling
TerminalStatuses == {"READY", "ERROR"}

\* type Endpoint, the field the polling loop reads
Endpoint == [Progress : ProgressValues]

\* type Host, the fields main and WaitForAssessment read
Host == [Status : StatusValues,
         Endpoints : UNION {[1..n -> Endpoint] : n \in 0..MaxEndpoints}]

\* the Hosts a start-assessment response carries
StartHost == [Status : StatusValues,
              Endpoints : UNION {[1..n -> Endpoint] : n \in 0..MaxStartEndpoints}]

\* type Info, the fields main reads
Info == [MaxAssessments : 0..MaxCap, CurrentAssessments : 0..MaxCap]

\* a nil *Host
NoHost == [Status |-> "<nil>", Endpoints |-> <<>>]

\* a nil *Info
NoInfo == [MaxAssessments |-> -1, CurrentAssessments |-> -1]

\* var host Host before json.Unmarshal: the zero value, which is also what a
\* JSON document with none of Host's members decodes to
ZeroHost == [Status |-> "", Endpoints |-> <<>>]

\* var info Info before json.Unmarshal
ZeroInfo == [MaxAssessments |-> 0, CurrentAssessments |-> 0]

\* What the service answers to a GET: the connection may fail (reached =
\* FALSE); otherwise a status code and a body that cannot be read, is not
\* JSON, or is JSON and decodes to value.  A success carries any of Values or
\* a document with none of their members, which decodes to the zero value
\* (status ""); a non-success status carries the API's error document, which
\* decodes to the zero value too.
Responses(Values, none, zero) ==
    {[reached |-> FALSE, code |-> 0, body |-> "none", value |-> none]}
    \cup [reached : {TRUE}, code : HTTPCodes, body : {"unreadable", "malformed"},
          value : {none}]
    \cup [reached : {TRUE}, code : {StatusOK}, body : {"json"},
          value : Values \cup {zero}]
    \cup [reached : {TRUE}, code : HTTPCodes \ {StatusOK}, body : {"json"},
          value : {zero}]

\* an entry of trace
Ev(e, n, p) == [ev |-> e, n |-> n, p |-> p, url |-> <<>>]

\* the entry of an HTTP request: the operation, the URL requested, the
\* status code received (0 if none) and what the client method returned: -1
\* for an error, otherwise the number of endpoints of the value it decoded
\* (0 for an Info)
Request(op, url, resp, res) ==
    [ev  |-> op,
     n   |-> resp.code,
     p   |-> IF res.err THEN -1
             ELSE IF "Endpoints" \in DOMAIN res.value THEN Len(res.value.Endpoints)
             ELSE 0,
     url |-> url]

---------------------------------------------------------------------------
(* URLs.  A string is the sequence of its pieces: the characters that      *)
(* structure a URL ("?", "&", "=") are pieces of their own, a run of other *)
(* characters is one piece.  fmt.Sprintf("%s", x) puts the pieces of x     *)
(* into the result as they are.                                            *)

\* the -domain values of the model
Domains == {"", "example.com", "a&startNew=on"}

\* the pieces of a -domain value
Pieces(d) ==
    CASE d = "" -> <<>>
      [] d = "example.com" -> <<"example.com">>
      [] d = "a&startNew=on" -> <<"a", "&", "startNew", "=", "on">>

\* NewSSLClient: baseurl
BaseURL == <<"https://api.ssllabs.com/api/v2">>

\* CheckApiStatus, line 63: the URL requested
InfoURL == BaseURL \o <<"/info">>

\* StartAssessment, lines 92-96: the URL requested
StartURL(d, pub) ==
    LET url == BaseURL \o <<"/analyze", "?", "host", "=">> \o Pieces(d)
                       \o <<"&", "all", "=", "done", "&", "startNew", "=", "on">>
    IN  IF pub THEN url \o <<"&", "publish", "=", "on">> ELSE url

\* CheckAssessmentStatus, line 117: the URL requested
CheckURL(d) ==
    BaseURL \o <<"/analyze", "?", "host", "=">> \o Pieces(d)
            \o <<"&", "all", "=", "done">>

---------------------------------------------------------------------------
(* SSLClient methods: the result for a given response *)

\* CheckApiStatus: error if the GET fails, the status is not 200, the body
\* cannot be read or is not JSON
CheckApiStatus(resp) ==
    IF ~resp.reached THEN [err |-> TRUE, value |-> NoInfo]
    ELSE IF resp.code # StatusOK THEN [err |-> TRUE, value |-> NoInfo]
    ELSE IF resp.body = "unreadable" THEN [err |-> TRUE, value |-> NoInfo]
    ELSE IF resp.body = "malformed" THEN [err |-> TRUE, value |-> NoInfo]
    ELSE [err |-> FALSE, value |-> resp.value]

\* StartAssessment: error if the GET fails, the body cannot be read or is
\* not JSON; resp.StatusCode is not read
StartAssessment(resp) ==
    IF ~resp.reached THEN [err |-> TRUE, value |-> NoHost]
    ELSE IF resp.body = "unreadable" THEN [err |-> TRUE, value |-> NoHost]
    ELSE IF resp.body = "malformed" THEN [err |-> TRUE, value |-> NoHost]
    ELSE [err |-> FALSE, value |-> resp.value]

\* CheckAssessmentStatus: as StartAssessment
CheckAssessmentStatus(resp) ==
    IF ~resp.reached THEN [err |-> TRUE, value |-> NoHost]
    ELSE IF resp.body = "unreadable" THEN [err |-> TRUE, value |-> NoHost]
    ELSE IF resp.body = "malformed" THEN [err |-> TRUE, value |-> NoHost]
    ELSE [err |-> FALSE, value |-> resp.value]

---------------------------------------------------------------------------
\* main, lines 198-201: the flags, then the state before anything has run
InitFlags(domains, publishes) ==
    /\ pc = "flags"
    /\ help \in BOOLEAN
    /\ domain \in domains
    /\ publish \in publishes
    /\ info = NoInfo
    /\ host = NoHost
    /\ polled = NoHost
    /\ i = 0
    /\ endpoint = 1
    /\ flag = FALSE
    /\ rendered = NoHost
    /\ exitCode = -1
    /\ cached = NoHost
    /\ trace = <<>>

\* a run for no domain or for example.com, results not published
Init == InitFlags({"", "example.com"}, {FALSE})

\* main, lines 203-208: usage and exit 0
ShowUsage ==
    /\ pc = "flags"
    /\ help \/ domain = ""
    /\ trace' = Append(trace, Ev("usage", 0, 0))
    /\ exitCode' = 0
    /\ pc' = "exit"
    /\ UNCHANGED <<help, domain, publish, info, host, polled, i, endpoint, flag, rendered, cached>>

\* main, line 210: sslClient := NewSSLClient()
NewClient ==
    /\ pc = "flags"
    /\ ~(help \/ domain = "")
    /\ pc' = "info"
    /\ UNCHANGED <<help, domain, publish, info, host, polled, i, endpoint, flag, rendered,
                   exitCode, cached, trace>>

\* main, lines 212-216: CheckApiStatus returns an error, exit 1
InfoFails ==
    /\ pc = "info"
    /\ \E resp \in Responses(Info, NoInfo, ZeroInfo) :
         /\ CheckApiStatus(resp).err
         /\ trace' = trace \o <<Request("info", InfoURL, resp, CheckApiStatus(resp)),
                                Ev("error info", 0, 0)>>
    /\ exitCode' = 1
    /\ pc' = "exit"
    /\ UNCHANGED <<help, domain, publish, info, host, polled, i, endpoint, flag, rendered, cached>>

\* mutant of InfoOk: the capacity check is left out
InfoOk_SkipsCapacity ==
    /\ pc = "info"
    /\ \E resp \in Responses(Info, NoInfo, ZeroInfo) :
         /\ ~CheckApiStatus(resp).err
         /\ info' = CheckApiStatus(resp).value
         /\ trace' = Append(trace, Request("info", InfoURL, resp, CheckApiStatus(resp)))
    /\ pc' = "start"
    /\ UNCHANGED <<help, domain, publish, host, polled, i, endpoint, flag, rendered,
                   exitCode, cached>>

\* main, line 212: CheckApiStatus returns the Info
InfoOk ==
    /\ pc = "info"
    /\ \E resp \in Responses(Info, NoInfo, ZeroInfo) :
         /\ ~CheckApiStatus(resp).err
         /\ info' = CheckApiStatus(resp).value
         /\ trace' = Append(trace, Request("info", InfoURL, resp, CheckApiStatus(resp)))
    /\ pc' = "capacity"
    /\ UNCHANGED <<help, domain, publish, host, polled, i, endpoint, flag, rendered,
                   exitCode, cached>>

\* mutant of CapacityReached: > for >=
CapacityReached_Strict(inf) == inf.CurrentAssessments > inf.MaxAssessments

\* main, line 218: the condition of the capacity check
CapacityReached(inf) == inf.CurrentAssessments >= inf.MaxAssessments

\* main, lines 218-221: no capacity left, exit 1
CapacityAbort ==
    /\ pc = "capacity"
    /\ CapacityReached(info)
    /\ trace' = Append(trace, Ev("capacity reached", 0, 0))
    /\ exitCode' = 1
    /\ pc' = "exit"
    /\ UNCHANGED <<help, domain, publish, info, host, polled, i, endpoint, flag, rendered, cached>>

\* main, lines 218-224: capacity left, go on to the start call
CapacityOk ==
    /\ pc = "capacity"
    /\ ~CapacityReached(info)
    /\ pc' = "start"
    /\ UNCHANGED <<help, domain, publish, info, host, polled, i, endpoint, flag, rendered,
                   exitCode, cached, trace>>

\* main, lines 225-229: StartAssessment returns an error, exit 1
StartFails ==
    /\ pc = "start"
    /\ \E resp \in Responses(StartHost, NoHost, ZeroHost) :
         /\ StartAssessment(resp).err
         /\ trace' = trace \o <<Request("start", StartURL(domain, publish), resp,
                                        StartAssessment(resp)),
                                Ev("error start", 0, 0)>>
    /\ exitCode' = 1
    /\ pc' = "exit"
    /\ UNCHANGED <<help, domain, publish, info, host, polled, i, endpoint, flag, rendered, cached>>

\* main, lines 225-231: StartAssessment returns a Host
StartOk ==
    /\ pc = "start"
    /\ \E resp \in Responses(StartHost, NoHost, ZeroHost) :
         /\ ~StartAssessment(resp).err
         /\ host' = StartAssessment(resp).value
         /\ trace' = Append(trace, Request("start", StartURL(domain, publish),
                                           resp, StartAssessment(resp)))
    /\ cached' = IF host'.Status \in TerminalStatuses THEN host' ELSE NoHost
    /\ pc' = "started"
    /\ UNCHANGED <<help, domain, publish, info, polled, i, endpoint, flag, rendered, exitCode>>

\* mutant of NeedsWait: only READY skips the polling
NeedsWait_ReadyOnly(h) == h.Status # "READY"

\* main, line 232: the condition under which main calls WaitForAssessment
NeedsWait(h) == h.Status # "READY" /\ h.Status # "ERROR"

\* main, line 232 false: the start response is rendered without polling
SkipWait ==
    /\ pc = "started"
    /\ ~NeedsWait(host)
    /\ pc' = "render"
    /\ UNCHANGED <<help, domain, publish, info, host, polled, i, endpoint, flag, rendered,
                   exitCode, cached, trace>>

\* main, lines 232-234, WaitForAssessment, lines 138-140: enter the loop
EnterWait ==
    /\ pc = "started"
    /\ NeedsWait(host)
    /\ i' = 0
    /\ endpoint' = 1
    /\ flag' = FALSE
    /\ pc' = "poll"
    /\ UNCHANGED <<help, domain, publish, info, host, polled, rendered, exitCode, cached, trace>>

\* number of check-assessment requests issued so far
Polls == Cardinality({k \in 1..Len(trace) : trace[k].ev = "check"})

\* mutant of PollFails: the error is reported and the loop polls again
PollFails_Retry ==
    /\ pc = "poll"
    /\ Polls < MaxPolls
    /\ \E resp \in Responses(Host, NoHost, ZeroHost) :
         /\ CheckAssessmentStatus(resp).err
         /\ trace' = trace \o <<Request("check", CheckURL(domain),
                                        resp, CheckAssessmentStatus(resp)),
                                Ev("sleep", PollDelay, 0)>>
    /\ UNCHANGED <<pc, help, domain, publish, info, host, polled, i, endpoint, flag, rendered,
                   exitCode, cached>>

\* WaitForAssessment, lines 144-147, main, lines 235-238: the poll returns an
\* error, WaitForAssessment returns it, exit 1
PollFails ==
    /\ pc = "poll"
    /\ Polls < MaxPolls
    /\ \E resp \in Responses(Host, NoHost, ZeroHost) :
         /\ CheckAssessmentStatus(resp).err
         /\ trace' = trace \o <<Request("check", CheckURL(domain), resp,
                                        CheckAssessmentStatus(resp)),
                                Ev("error wait", 0, 0)>>
    /\ polled' = NoHost
    /\ host' = NoHost
    /\ exitCode' = 1
    /\ pc' = "exit"
    /\ UNCHANGED <<help, domain, publish, info, i, endpoint, flag, rendered, cached>>

\* WaitForAssessment, line 144: the poll returns a Host, the response being
\* one of S
PollOkFrom(S) ==
    /\ pc = "poll"
    /\ \E resp \in S :
         /\ ~CheckAssessmentStatus(resp).err
         /\ polled' = CheckAssessmentStatus(resp).value
         /\ trace' = Append(trace, Request("check", CheckURL(domain),
                                           resp, CheckAssessmentStatus(resp)))
    /\ pc' = "progress"
    /\ UNCHANGED <<help, domain, publish, info, host, i, endpoint, flag, rendered,
                   exitCode, cached>>

\* WaitForAssessment, line 144: the poll returns a Host, any response
PollOk ==
    /\ Polls < MaxPolls
    /\ PollOkFrom(Responses(Host, NoHost, ZeroHost))

\* The endpoints lists of three successive polls: one endpoint at 40, the
\* same at 100, then that endpoint at 100 and a second one at 50
ScenarioEndpoints ==
    << <<[Progress |-> 40]>>,
       <<[Progress |-> 100]>>,
       <<[Progress |-> 100], [Progress |-> 50]>> >>

\* the responses to the n-th poll of the scenario: a success with the n-th
\* endpoints list and any status
ScenarioResponses(n) ==
    {[reached |-> TRUE, code |-> StatusOK, body |-> "json",
      value |-> [Status |-> st, Endpoints |-> ScenarioEndpoints[n]]] :
        st \in StatusValues}

\* WaitForAssessment, line 144, with the service following the scenario
ScenarioPoll ==
    /\ Polls < Len(ScenarioEndpoints)
    /\ PollOkFrom(ScenarioResponses(Polls + 1))

\* an index expression host.Endpoints[k] that does not panic
InRange(E, k) == 0 <= k /\ k < Len(E)

\* host.Endpoints[k].Progress, k counted from 0 as in the source
ProgressAt(E, k) == E[k + 1].Progress

\* WaitForAssessment, lines 151 and 162: the printed progress line of
\* host.Endpoints[k]
Line(E, k) == Ev("line", k, ProgressAt(E, k))

\* WaitForAssessment, line 157: the printed header
Header(n) == Ev("header", n, 0)

\* mutant of EnterBlock: the test of flag is left out
EnterBlock_NoFlag(E, k, fl) == ProgressAt(E, k) = 100

\* WaitForAssessment, line 149: the condition, for an index that is in range
\* whenever it is read (flag set)
EnterBlock(E, k, fl) == ~fl \/ ProgressAt(E, k) = 100

\* mutant of Advance: the test i+1 < len is left out
Advance_Unguarded(E, k) == k + 1

\* WaitForAssessment, lines 152-154: i after the step over a finished endpoint
Advance(E, k) == IF k + 1 < Len(E) THEN k + 1 ELSE k

\* mutant of HeaderDue: a header on every pass through the block
HeaderDue_Always(E, n) == TRUE

\* WaitForAssessment, line 156: the condition under which a header is printed
HeaderDue(E, n) == n < Len(E) + 1

\* WaitForAssessment, lines 149-162 on the endpoints E of the polled host,
\* from i = k, endpoint = n, flag = fl: the values after it, what it printed,
\* and whether an index expression panicked (the run then ends where it did)
PrintProgress(E, k, n, fl) ==
    LET stop(out) == [panic |-> TRUE, i |-> k, endpoint |-> n, flag |-> fl, out |-> out]
        \* line 162
        last(k2, n2, fl2, out) ==
            IF ~InRange(E, k2)
            THEN [panic |-> TRUE, i |-> k2, endpoint |-> n2, flag |-> fl2, out |-> out]
            ELSE [panic |-> FALSE, i |-> k2, endpoint |-> n2, flag |-> fl2,
                  out |-> Append(out, Line(E, k2))]
        \* lines 150-160
        block ==
            IF ~InRange(E, k) THEN stop(<<>>)
            ELSE LET done == ProgressAt(E, k) = 100
                     out1 == IF done THEN <<Line(E, k)>> ELSE <<>>
                     k1   == IF done THEN Advance(E, k) ELSE k
                     due  == HeaderDue(E, n)
                     out2 == IF due THEN Append(out1, Header(n)) ELSE out1
                     n1   == IF due THEN n + 1 ELSE n
                 IN  last(k1, n1, TRUE, out2)
    IN  IF fl /\ ~InRange(E, k) THEN stop(<<>>)
        ELSE IF EnterBlock(E, k, fl) THEN block
        ELSE last(k, n, fl, <<>>)

\* WaitForAssessment, lines 148-162: the progress report of one poll; an index
\* out of range is a run-time panic, which ends the process with status 2
Progress ==
    /\ pc = "progress"
    /\ LET r == PrintProgress(polled.Endpoints, i, endpoint, flag)
       IN  /\ i' = r.i
           /\ endpoint' = r.endpoint
           /\ flag' = r.flag
           /\ IF r.panic
              THEN /\ trace' = Append(trace \o r.out, Ev("panic", 0, 0))
                   /\ exitCode' = 2
                   /\ pc' = "exit"
              ELSE /\ trace' = trace \o r.out
                   /\ exitCode' = exitCode
                   /\ pc' = "check"
    /\ UNCHANGED <<help, domain, publish, info, host, polled, rendered, cached>>

\* mutant of WaitDone: the loop returns on anything but IN_PROGRESS
WaitDone_NotInProgress(h) == h.Status # "IN_PROGRESS"

\* WaitForAssessment, line 164: the condition under which the loop returns
WaitDone(h) == h.Status = "READY" \/ h.Status = "ERROR"

\* WaitForAssessment, lines 164-167, main, line 234: return the polled host
WaitReturn ==
    /\ pc = "check"
    /\ WaitDone(polled)
    /\ host' = polled
    /\ pc' = "render"
    /\ UNCHANGED <<help, domain, publish, info, polled, i, endpoint, flag, rendered,
                   exitCode, cached, trace>>

\* mutant of Sleep: time.Sleep is left out
Sleep_NoDelay ==
    /\ pc = "check"
    /\ ~WaitDone(polled)
    /\ polled' = NoHost
    /\ pc' = "poll"
    /\ UNCHANGED <<help, domain, publish, info, host, i, endpoint, flag, rendered,
                   exitCode, cached, trace>>

\* WaitForAssessment, lines 168-169: the delay before the next poll; the
\* iteration's host goes out of scope
Sleep ==
    /\ pc = "check"
    /\ ~WaitDone(polled)
    /\ trace' = Append(trace, Ev("sleep", PollDelay, 0))
    /\ polled' = NoHost
    /\ pc' = "poll"
    /\ UNCHANGED <<help, domain, publish, info, host, i, endpoint, flag, rendered,
                   exitCode, cached>>

\* mutant of Render: an ERROR assessment ends the process with status 1
Render_ErrorExits1 ==
    /\ pc = "render"
    /\ rendered' = host
    /\ trace' = Append(trace, Ev("render", 0, 0))
    /\ exitCode' = IF host.Status = "ERROR" THEN 1 ELSE 0
    /\ pc' = "exit"
    /\ UNCHANGED <<help, domain, publish, info, host, polled, i, endpoint, flag, cached>>

\* main, lines 241-242: displayResults(host), then main returns: exit 0
Render ==
    /\ pc = "render"
    /\ rendered' = host
    /\ trace' = Append(trace, Ev("render", 0, 0))
    /\ exitCode' = 0
    /\ pc' = "exit"
    /\ UNCHANGED <<help, domain, publish, info, host, polled, i, endpoint, flag, cached>>

Next ==
    \/ ShowUsage
    \/ NewClient
    \/ InfoFails
    \/ InfoOk
    \/ CapacityAbort
    \/ CapacityOk
    \/ StartFails
    \/ StartOk
    \/ SkipWait
    \/ EnterWait
    \/ PollFails
    \/ PollOk
    \/ Progress
    \/ WaitReturn
    \/ Sleep
    \/ Render

Spec == Init /\ [][Next]_vars

\* Runs for any of Domains, published or not, against a service whose polls
\* never fail and follow the scenario
InitScenario == InitFlags(Domains, BOOLEAN)

NextScenario ==
    \/ ShowUsage
    \/ NewClient
    \/ InfoFails
    \/ InfoOk
    \/ CapacityAbort
    \/ CapacityOk
    \/ StartFails
    \/ StartOk
    \/ SkipWait
    \/ EnterWait
    \/ ScenarioPoll
    \/ Progress
    \/ WaitReturn
    \/ Sleep
    \/ Render

SpecScenario == InitScenario /\ [][NextScenario]_vars

---------------------------------------------------------------------------
(* Vocabulary of the properties *)

RequestOps == {"info", "start", "check"}

\* positions of trace holding an event of one of the kinds
At(kinds) == {k \in 1..Len(trace) : trace[k].ev \in kinds}

\* some client method has returned an error
CallFailed == \E k \in At(RequestOps) : trace[k].p = -1

\* the service-info call succeeded and reported no spare capacity
CapacityExceeded ==
    info # NoInfo /\ info.CurrentAssessments >= info.MaxAssessments

\* a run-time panic has ended the process
Panicked == At({"panic"}) # {}

\* the number of the header printed last before position k, 0 if none
LastHeaderBefore(k) ==
    LET hs == {j \in At({"header"}) : j < k}
    IN  IF hs = {} THEN 0
        ELSE trace[CHOOSE j \in hs : \A m \in hs : m <= j].n

---------------------------------------------------------------------------
(* C1: whenever service-info reports currentAssessments >= maxAssessments,  *)
(* the run issues no start-assessment and no check-assessment request and  *)
(* ends with the capacity message and exit code 1.                         *)
C1_CapacityAbort ==
    CapacityExceeded =>
        /\ At({"start", "check"}) = {}
        /\ pc \in {"capacity", "exit"}
        /\ pc = "exit" => /\ exitCode = 1
                          /\ trace[Len(trace)].ev = "capacity reached"

\* the scenario max = current: the run has ended with exit code 1
C1_Witness ==
    /\ CapacityExceeded
    /\ info.MaxAssessments > 0
    /\ info.CurrentAssessments = info.MaxAssessments
    /\ pc = "exit"
    /\ exitCode = 1

(* C2 as stated: once a poll has returned status READY or ERROR, whatever  *)
(* its endpoints list, WaitForAssessment returns that very Host (main       *)
(* renders it and exits 0) with no delay and no request after that poll.   *)
C2_TerminalPollReturned ==
    (polled # NoHost /\ polled.Status \in TerminalStatuses) =>
        /\ pc \in {"progress", "check", "render", "exit"}
        /\ pc \in {"render", "exit"} => host = polled
        /\ pc = "exit" => exitCode = 0 /\ rendered = polled
        /\ \A k \in At({"sleep"} \cup RequestOps) :
              \E j \in At({"check"}) : k <= j

(* C3 as stated: the progress report never evaluates host.Endpoints[i]     *)
(* with i outside 0..len-1, in particular not on an empty endpoints list:  *)
(* no run ends in an index-out-of-range panic.                             *)
C3_NoIndexOutOfRange == ~Panicked /\ exitCode # 2

(* C4: past the flag handling, a run in which service-info, start or a     *)
(* poll returned an error, or capacity was exceeded, ends with exit code 1 *)
(* and nothing rendered; a run ends with exit code 0 only after rendering  *)
(* a READY or ERROR assessment, and rendering an ERROR assessment ends     *)
(* with exit code 0.                                                       *)
C4_OutcomeMapping ==
    pc = "exit" =>
        /\ (CallFailed \/ CapacityExceeded) =>
              exitCode = 1 /\ rendered = NoHost /\ At({"render"}) = {}
        /\ (exitCode = 0 /\ At({"usage"}) = {}) =>
              /\ rendered.Status \in TerminalStatuses
              /\ trace[Len(trace)].ev = "render"
        /\ exitCode = 1 => rendered = NoHost /\ At({"render"}) = {}
        /\ rendered # NoHost => exitCode = 0

\* a polled ERROR assessment was rendered and the run ended with exit code 0
C4_Witness ==
    /\ pc = "exit"
    /\ exitCode = 0
    /\ rendered.Status = "ERROR"
    /\ At({"check"}) # {}

(* C5: if StartAssessment returned a Host with status READY or ERROR, no   *)
(* check-assessment request is issued and the Host rendered is that start  *)
(* response.                                                               *)
C5_CachedSkipsPolling ==
    cached # NoHost =>
        /\ At({"check"}) = {}
        /\ polled = NoHost
        /\ host = cached
        /\ pc \in {"started", "render", "exit"}
        /\ pc = "exit" => rendered = cached /\ exitCode = 0

\* the scenario: start returns READY with one endpoint, which is rendered
C5_Witness ==
    /\ cached.Status = "READY"
    /\ Len(cached.Endpoints) = 1
    /\ rendered = cached
    /\ pc = "exit"

(* C6 as stated: every HTTP call that receives a status other than 200     *)
(* returns an error, so no response with such a status is decoded into a   *)
(* value.                                                                  *)
C6_NonSuccessIsError ==
    \A k \in At(RequestOps) : trace[k].n # StatusOK => trace[k].p = -1

(* C7 as stated: a poll that returned a status other than READY and ERROR  *)
(* is followed by the delay and another poll: while the Host of such a     *)
(* poll is the current one, the loop is still running.                     *)
C7_NonTerminalPollContinues ==
    (polled # NoHost /\ polled.Status \notin TerminalStatuses) =>
        pc \in {"progress", "check"}

(* C8: once a client method has returned an error, the run is over with    *)
(* exit code 1: no request and no delay follows the failed request.        *)
C8_NoRetry ==
    \A j \in At(RequestOps) :
        trace[j].p = -1 =>
            /\ pc = "exit" /\ exitCode = 1
            /\ \A k \in At(RequestOps \cup {"sleep"}) : k <= j

\* the third poll failed after two that succeeded
C8_Witness ==
    /\ Len(trace) >= 2
    /\ trace[Len(trace) - 1].ev = "check"
    /\ trace[Len(trace) - 1].p = -1
    /\ Cardinality(At({"check"})) >= 3
    /\ pc = "exit"

(* C9: displayResults is only called with a Host whose status is READY or  *)
(* ERROR.                                                                  *)
C9_RenderOnlyTerminal ==
    /\ pc = "render" => host.Status \in TerminalStatuses
    /\ rendered # NoHost => rendered.Status \in TerminalStatuses

\* a Host returned by WaitForAssessment was rendered
C9_Witness ==
    /\ rendered # NoHost
    /\ rendered = polled
    /\ At({"sleep"}) # {}

(* C10 as stated: every progress line of the endpoint at index k is        *)
(* printed while the last header printed is number k+1, and header number  *)
(* k+2 is printed only after a line of the endpoint at index k at 100.     *)
C10_LinesUnderOwnHeader ==
    /\ \A k \in At({"line"}) : LastHeaderBefore(k) = trace[k].n + 1
    /\ \A k \in At({"header"}) :
          trace[k].n >= 2 =>
             \E j \in At({"line"}) :
                j < k /\ trace[j].n = trace[k].n - 2 /\ trace[j].p = 100

---------------------------------------------------------------------------
(* Vocabulary of the properties about single polls *)

\* positions of the check-assessment requests
Checks == At({"check"})

\* the positions after the request at c and before the next request: what
\* the run did for the poll at c
Segment(c) ==
    {k \in 1..Len(trace) : k > c /\ \A j \in Checks : j <= c \/ j > k}

\* the progress report of the poll at c has run (it is not still to come)
Reported(c) == ~(pc = "progress" /\ \A j \in Checks : j <= c)

\* every poll so far returned a Host with at least one endpoint
AllNonEmpty == \A c \in Checks : trace[c].p >= 1

\* no poll so far returned fewer endpoints than the poll before it
NeverShrinks == \A a, b \in Checks : a < b => trace[a].p <= trace[b].p

(* C11 as stated: every poll that returned a non-empty endpoints list      *)
(* prints exactly one progress line.                                       *)
C11_OneLinePerPoll ==
    \A c \in Checks :
        (trace[c].p >= 1 /\ Reported(c)) =>
            Cardinality(Segment(c) \cap At({"line"})) = 1

(* C13 as stated: the number of polls of one WaitForAssessment is bounded: *)
(* after MaxPolls polls the loop is not about to poll once more.           *)
C13_AttemptsBounded == ~(pc = "poll" /\ Polls >= MaxPolls)

(* C14: the requests of a run are one service-info request, then at most   *)
(* one start-assessment request, then check-assessment requests; the start *)
(* request follows a successful service-info with spare capacity, every    *)
(* check request follows a successful start request.                       *)
C14_RequestOrder ==
    LET infos  == At({"info"})
        starts == At({"start"})
        checks == At({"check"})
    IN  /\ (pc \notin {"flags", "info"} /\ At({"usage"}) = {}) => infos # {}
        /\ Cardinality(infos) <= 1
        /\ Cardinality(starts) <= 1
        /\ \A k \in starts :
              /\ \E j \in infos : j < k /\ trace[j].p # -1
              /\ info # NoInfo
              /\ info.CurrentAssessments < info.MaxAssessments
        /\ \A k \in checks :
              \E j \in starts : j < k /\ trace[j].p # -1

\* service-info, start and three polls
C14_Witness ==
    /\ At({"info"}) # {}
    /\ At({"start"}) # {}
    /\ Cardinality(Checks) >= 3

(* C15 as stated, the part a finite run decides: if no poll failed, every  *)
(* poll returned a non-empty endpoints list and the last one returned      *)
(* READY or ERROR, the run goes on to render that Host and exit 0.         *)
C15_TerminalPollRendered ==
    (Checks # {} /\ AllNonEmpty /\ polled.Status \in TerminalStatuses) =>
        \/ pc \in {"progress", "check", "render"}
        \/ pc = "exit" /\ exitCode = 0 /\ rendered = polled

(* C16: between two successive polls there is exactly one delay, of        *)
(* PollDelay seconds, right before the later poll and after the progress   *)
(* lines of the earlier one; nothing but a poll follows a delay.           *)
C16_PollsAndDelaysAlternate ==
    LET checks == At({"check"})
        sleeps == At({"sleep"})
    IN  \* a poll is the first one, right after the start request, or comes
        \* right after a delay
        /\ \A c \in checks :
              /\ c > 1
              /\ trace[c - 1].ev \in {"start", "sleep"}
              /\ trace[c - 1].ev = "start" <=> \A j \in checks : c <= j
        \* a delay lasts PollDelay, comes right after the last progress line
        \* of a poll that returned a Host, and only a poll follows it: so
        \* exactly one delay lies between two successive polls
        /\ \A s \in sleeps :
              /\ trace[s].n = PollDelay
              /\ s > 1 /\ trace[s - 1].ev = "line"
              /\ \E c \in checks : c < s /\ trace[c].p # -1
                    /\ \A k \in (c + 1)..(s - 1) : trace[k].ev \in {"line", "header"}
              /\ s < Len(trace) => trace[s + 1].ev = "check"
              /\ s = Len(trace) => pc = "poll"

\* three polls, a delay before the second and before the third
C16_Witness ==
    /\ Cardinality(Checks) = 3
    /\ Cardinality(At({"sleep"})) = 2
    /\ pc = "check"

(* C18: while every poll returns at least one endpoint and no poll returns *)
(* fewer endpoints than the one before, each progress report reads         *)
(* host.Endpoints[i] only with 0 <= i <= len-1, leaves i or adds one to it,*)
(* adds one only if the endpoint at i is at 100, and does not panic;       *)
(* nothing else changes i.                                                 *)
C18_CursorInRange ==
    [][ /\ pc # "progress" => i' = i
        /\ (pc = "progress" /\ AllNonEmpty /\ NeverShrinks) =>
              /\ InRange(polled.Endpoints, i)
              /\ i' \in {i, i + 1}
              /\ i' = i + 1 => ProgressAt(polled.Endpoints, i) = 100
              /\ InRange(polled.Endpoints, i')
              /\ pc' = "check" /\ ~Panicked'
      ]_vars

\* the cursor has moved to the second endpoint, lists never empty or shorter
C18_Witness ==
    /\ i = 1
    /\ pc = "check"
    /\ Cardinality(Checks) >= 2
    /\ AllNonEmpty /\ NeverShrinks

(* C19: the k-th header printed carries the number k; no poll prints two   *)
(* headers; the number of headers printed never exceeds the length of the  *)
(* longest endpoints list a poll has returned so far.                      *)
C19_HeadersConsecutive ==
    LET headers == At({"header"})
        checks  == At({"check"})
    IN  /\ \A h \in headers : trace[h].n = Cardinality({j \in headers : j <= h})
        /\ \A g, h \in headers : g < h => \E c \in checks : g < c /\ c < h
        /\ headers # {} => \E c \in checks : Cardinality(headers) <= trace[c].p
        /\ pc \in {"poll", "progress", "check"} =>
              endpoint = Cardinality(headers) + 1

\* two headers have been printed
C19_Witness ==
    /\ Cardinality(At({"header"})) = 2
    /\ pc = "check"
    /\ Cardinality(Checks) >= 2

\* C15's statement holds for lists that never get shorter
TerminalPollRenderedIfNeverShrinks ==
    (Checks # {} /\ AllNonEmpty /\ NeverShrinks /\ polled.Status \in TerminalStatuses) =>
        \/ pc \in {"progress", "check", "render"}
        \/ pc = "exit" /\ exitCode = 0 /\ rendered = polled

---------------------------------------------------------------------------
(* Properties of the scenario and of the requests' parameters, under       *)
(* SpecScenario                                                            *)

\* the position of the n-th check-assessment request
NthCheck(n) ==
    CHOOSE c \in Checks : Cardinality({j \in Checks : j <= c}) = n

\* the n-th poll has been made and its progress report has run
PollReported(n) == Cardinality(Checks) >= n /\ Reported(NthCheck(n))

\* what the n-th poll printed: the positions of its lines and headers
Printed(n, kinds) == Segment(NthCheck(n)) \cap At(kinds)

(* C12: in the scenario, polls 1 and 2 print lines of the first endpoint   *)
(* only (at 40, then at 100), all under header 1; poll 3 prints header 2   *)
(* and after it the line of the second endpoint at 50; no poll panics.     *)
C12_Scenario ==
    /\ ~Panicked
    /\ PollReported(1) =>
          /\ Printed(1, {"line"}) # {}
          /\ \A k \in Printed(1, {"line"}) :
                trace[k].n = 0 /\ trace[k].p = 40 /\ LastHeaderBefore(k) = 1
    /\ PollReported(2) =>
          /\ Printed(2, {"line"}) # {}
          /\ Printed(2, {"header"}) = {}
          /\ \A k \in Printed(2, {"line"}) :
                trace[k].n = 0 /\ trace[k].p = 100 /\ LastHeaderBefore(k) = 1
    /\ PollReported(3) =>
          \E h \in Printed(3, {"header"}) :
             /\ trace[h].n = 2
             /\ \E k \in Printed(3, {"line"}) :
                   k > h /\ trace[k].n = 1 /\ trace[k].p = 50
             /\ \A k \in Printed(3, {"line"}) : k > h => trace[k].n = 1

\* the third poll of the scenario has been reported
C12_Witness ==
    /\ PollReported(3)
    /\ i = 1
    /\ endpoint = 3
    /\ pc = "check"

\* the parameters a service reads from the query of a URL: the pairs
\* key=value between "?" or "&" and the next "&" or the end
Params(url) ==
    {<<url[q - 1], url[q + 1]>> :
        q \in {r \in 3..(Len(url) - 1) :
                 /\ url[r] = "="
                 /\ url[r - 2] \in {"?", "&"}
                 /\ r + 2 <= Len(url) => url[r + 2] = "&"}}

\* the values a query gives to a key
ValuesOf(url, key) == {kv[2] : kv \in {x \in Params(url) : x[1] = key}}

(* C17 as stated: every start request carries host=domain, all=done and    *)
(* startNew=on, and publish=on exactly if -publish is set; every poll      *)
(* request carries host=domain and all=done and no startNew.               *)
C17_RequestParameters ==
    /\ \A k \in At({"start"}) :
          /\ ValuesOf(trace[k].url, "host") = {domain}
          /\ ValuesOf(trace[k].url, "all") = {"done"}
          /\ ValuesOf(trace[k].url, "startNew") = {"on"}
          /\ ValuesOf(trace[k].url, "publish") = IF publish THEN {"on"} ELSE {}
    /\ \A k \in At({"check"}) :
          /\ ValuesOf(trace[k].url, "host") = {domain}
          /\ ValuesOf(trace[k].url, "all") = {"done"}
          /\ ValuesOf(trace[k].url, "startNew") = {}

\* C17's statement holds for a domain made of a single piece
RequestParametersOfPlainDomain ==
    Len(Pieces(domain)) = 1 => C17_RequestParameters
=============================================================================
